---- MODULE Spec2Model ----
(***************************************************************************)
(* NeuraDNS Flask UI server (src/blockchain_dns_register/app.py).          *)
(*                                                                         *)
(* The process checks that HTML_FILE exists, then binds 0.0.0.0:8765 and   *)
(* serves six routes.  Four of them forward one call to the Node.js API at *)
(* API_BASE_URL through the `requests` client and hand the view's return   *)
(* value to Flask.  Each inbound request is one slot of `req`; the slots   *)
(* run concurrently (one handler thread per request).                      *)
(*                                                                         *)
(* Library behaviour the handlers rely on is modelled as the libraries     *)
(* implement it: flask.Request.json, Flask.make_response, the URL          *)
(* preparation of requests/urllib3, requests following 3xx redirects       *)
(* (allow_redirects is left at its default), requests.Response.json.       *)
(***************************************************************************)
EXTENDS Integers, Sequences, FiniteSets, TLC

\* ------------------------------------------------------------------ bounds
\* Number of inbound requests handled concurrently.
NumReq == 2
\* Longest inbound `domain` query value, in characters.
MaxDomainLen == 3
\* Most redirects the backend answers to one client call.
MaxRedirects == 1

\* --------------------------------------------------------------- constants
API_BASE_URL == "http://localhost:3007"
HTML_FILE == "public/index.html"
LISTEN == "0.0.0.0:8765"

VARIABLES
    file_exists,   \* os.path.exists(HTML_FILE)
    pc_main,       \* position of the __main__ block
    exit_code,     \* process exit status, -1 while the process has not exited
    listener,      \* address the HTTP listener is bound to, "" when none
    backend,       \* condition of the Node.js API: "up", "down" or "hung"
    req            \* the inbound requests, one record per slot

vars == <<file_exists, pc_main, exit_code, listener, backend, req>>

Requests == 1..NumReq

\* ------------------------------------------------------------- JSON values
\* A JSON document is a tuple of strings whose head is its type.
BAD == <<"JSONDecodeError">>

\* json.loads as used by flask.Request.get_json (inbound bodies) and by
\* requests.Response.json (backend bodies): text -> document, or BAD.
loads(text) ==
    CASE text = "{\"domain\":\"example.com\",\"ip\":\"8.8.8.8\"}"
            -> <<"object", "domain", "example.com", "ip", "8.8.8.8">>
      [] text = "{ \"domain\" : \"example.com\", \"ip\" : \"8.8.8.8\" }"
            -> <<"object", "domain", "example.com", "ip", "8.8.8.8">>
      [] text = "{\"success\":true}"   -> <<"object", "success", "true">>
      [] text = "{ \"success\": true }" -> <<"object", "success", "true">>
      [] text = "{\"error\":\"Domain not found\"}"
            -> <<"object", "error", "Domain not found">>
      [] text = "[1,2]"    -> <<"array", "1", "2">>
      [] text = "\"ok\""   -> <<"string", "ok">>
      [] text = "42"       -> <<"number", "42">>
      [] text = "null"     -> <<"null">>
      [] OTHER             -> BAD

json_type(doc) == doc[1]

\* ------------------------------------------------------------ the responses
NoResponse == [status |-> 0, ctype |-> "", body |-> <<>>, unhandled |-> FALSE]

\* jsonify({...}) of the /health view.
HealthStatus ==
    <<"object", "status", "running", "ui_server", "Flask", "port", "8765">>

\* jsonify({"error": str(e)}), 500 of the four except clauses.
ProxyError(msg) ==
    [status |-> 500, ctype |-> "application/json",
     body |-> <<"object", "error", msg>>, unhandled |-> FALSE]

\* Flask.make_response on the tuple (response.json(), response.status_code)
\* a view returns: a dict or a list is jsonified, a str becomes the text of
\* an HTML response, and anything else (None, int, float, bool) raises
\* TypeError after the view has returned, outside its try block; Flask
\* answers that with its own 500 Internal Server Error page.  (Lists are
\* jsonified from Flask 2.2 on; before that they raise TypeError as well.)
make_response(doc, status) ==
    IF json_type(doc) \in {"object", "array"}
    THEN [status |-> status, ctype |-> "application/json",
          body |-> doc, unhandled |-> FALSE]
    ELSE IF json_type(doc) = "string"
    THEN [status |-> status, ctype |-> "text/html",
          body |-> <<"text", doc[2]>>, unhandled |-> FALSE]
    ELSE [status |-> 500, ctype |-> "text/html",
          body |-> <<"text", "Internal Server Error">>, unhandled |-> TRUE]

\* ------------------------------------------------------- the inbound bodies
\* flask.Request.json: a body whose Content-Type is not JSON raises
\* UnsupportedMediaType, a JSON body that does not parse raises BadRequest;
\* both are Exceptions, raised inside the view's try block.  (Before Flask
\* 2.1 the first case gives None instead, which is then sent as no body.)
json_ok(b) == b.ctype = "application/json" /\ loads(b.text) # BAD

request_json(b) == loads(b.text)

request_json_error(b) ==
    IF b.ctype # "application/json"
    THEN "415 Unsupported Media Type: Did not attempt to load JSON data"
    ELSE "400 Bad Request: Failed to decode JSON object"

\* requests' json= argument: json=None sends no body at all.
NoBody == <<"nobody">>
json_body(doc) == IF json_type(doc) = "null" THEN NoBody ELSE doc

\* ------------------------------------------------- the resolve query string
\* A query value is a sequence of one-character strings; the parameter name
\* is the single token "domain".
Chars == {"x", "&", "#", "=", "+", " ", "?", "%", "2", "6"}

\* request.args.get('domain'): the decoded value, or None when absent.
NoDomain == [present |-> FALSE, v |-> <<>>]
Domain(v) == [present |-> TRUE, v |-> v]

\* f"{API_BASE_URL}/resolve?domain={domain}": the value is pasted in as it
\* is, and None formats as the text None.
resolve_query(d) ==
    <<"domain", "=">> \o (IF d.present THEN d.v ELSE <<"N", "o", "n", "e">>)

RECURSIVE TakeUntil(_, _)
TakeUntil(q, c) ==
    IF q = <<>> \/ Head(q) = c THEN <<>>
    ELSE <<Head(q)>> \o TakeUntil(Tail(q), c)

IsHex(c) == c \in {"0", "2", "5", "6"}

\* urllib3's parse_url keeps the percent signs of a component only when each
\* of them starts a %XX escape; otherwise every one is written %25.
AllEscapesValid(q) ==
    \A i \in 1..Len(q) :
        q[i] = "%" => (i + 2 <= Len(q) /\ IsHex(q[i + 1]) /\ IsHex(q[i + 2]))

RECURSIVE Encode(_, _)
Encode(q, keep) ==
    IF q = <<>> THEN <<>>
    ELSE (CASE Head(q) = " " -> <<"%", "2", "0">>
            [] Head(q) = "%" /\ ~keep -> <<"%", "2", "5">>
            [] OTHER -> <<Head(q)>>) \o Encode(Tail(q), keep)

\* requests.get(url) puts on the wire the query of the prepared URL: what
\* follows the first # is the fragment and is not sent, and the rest is
\* percent-encoded where it has to be.  (requests also rewrites the escape
\* of an unreserved character to the character, which decodes the same.)
prepare_query(q) ==
    LET sent == TakeUntil(q, "#")
    IN  Encode(sent, AllEscapesValid(sent))

\* The %XX escapes that can stand in a prepared query over Chars.
Unescape(a, b) ==
    CASE a = "2" /\ b = "0" -> " "
      [] a = "2" /\ b = "5" -> "%"
      [] a = "2" /\ b = "6" -> "&"
      [] a = "2" /\ b = "2" -> "\""
      [] a = "6" /\ b = "2" -> "b"
      [] a = "6" /\ b = "6" -> "f"
      [] OTHER -> "?"

\* How an HTTP server decodes one query component: + is a space and %XX is
\* the character it escapes.
RECURSIVE Decode(_)
Decode(q) ==
    IF q = <<>> THEN <<>>
    ELSE IF Head(q) = "+" THEN <<" ">> \o Decode(Tail(q))
    ELSE IF Head(q) = "%" /\ Len(q) >= 3 /\ IsHex(q[2]) /\ IsHex(q[3])
    THEN <<Unescape(q[2], q[3])>> \o Decode(SubSeq(q, 4, Len(q)))
    ELSE <<Head(q)>> \o Decode(Tail(q))

\* The domain parameter the backend's /resolve handler reads from the query
\* it received: parameters are separated by &, name and value by the first =.
received_domain(q) ==
    LET first == TakeUntil(q, "&")
    IN  Decode(SubSeq(first, 3, Len(first)))

\* ------------------------------------------------------------------- state
NoInBody == [ctype |-> "", text |-> ""]
NoCall == [method |-> "", path |-> "", query |-> <<>>, body |-> NoBody]
NoReply == [kind |-> "none", status |-> 0, text |-> ""]

Idle ==
    [pc |-> "idle", route |-> "", domain |-> NoDomain, inbody |-> NoInBody,
     out |-> NoCall, calls |-> 0, reply |-> NoReply,
     resp |-> NoResponse, nresp |-> 0]

Init ==
    /\ file_exists \in BOOLEAN
    /\ pc_main = "start"
    /\ exit_code = -1
    /\ listener = ""
    /\ backend \in {"up", "down", "hung"}
    /\ req = [r \in Requests |-> Idle]

\* ----------------------------------------------------------------- startup
\* Faulty variant of main_check: the error is printed but the process goes on.
main_check_no_exit ==
    /\ pc_main = "start"
    /\ pc_main' = "banner"
    /\ UNCHANGED <<file_exists, exit_code, listener, backend, req>>

\* if not os.path.exists(HTML_FILE): print(...); exit(1)
main_check ==
    /\ pc_main = "start"
    /\ IF file_exists
       THEN pc_main' = "banner" /\ exit_code' = exit_code
       ELSE pc_main' = "exited" /\ exit_code' = 1
    /\ UNCHANGED <<file_exists, listener, backend, req>>

\* the banner, then app.run(host='0.0.0.0', port=8765, debug=False)
app_run ==
    /\ pc_main = "banner"
    /\ pc_main' = "serving"
    /\ listener' = LISTEN
    /\ UNCHANGED <<file_exists, exit_code, backend, req>>

\* A request is accepted on a free slot once the listener is bound.
Accepts(r) == listener = LISTEN /\ req[r].pc = "idle"

Env == <<file_exists, pc_main, exit_code, listener, backend>>

\* The view has returned and Flask has sent `resp`.
Respond(r, route, resp) ==
    [req[r] EXCEPT !.pc = "done", !.route = route, !.resp = resp,
                   !.nresp = @ + 1]

\* The view is inside requests.get / requests.post, which has sent `out`.
Call(r, route, out) ==
    [req[r] EXCEPT !.pc = "waiting", !.route = route, !.out = out,
                   !.calls = @ + 1]

\* -------------------------------------------------------------- main routes
\* GET /: send_file(HTML_FILE)
index(r) ==
    /\ Accepts(r)
    /\ req' = [req EXCEPT ![r] = Respond(r, "/",
                 IF file_exists
                 THEN [status |-> 200, ctype |-> "text/html",
                       body |-> <<"file", HTML_FILE>>, unhandled |-> FALSE]
                 ELSE [status |-> 404, ctype |-> "text/html",
                       body |-> <<"text", "Not Found">>, unhandled |-> FALSE])]
    /\ UNCHANGED Env

\* Faulty variant of health: the view asks the backend for its health first.
health_probing_backend(r) ==
    /\ Accepts(r)
    /\ req' = [req EXCEPT ![r] = Call(r, "/health",
                 [method |-> "GET", path |-> "/health", query |-> <<>>,
                  body |-> NoBody])]
    /\ UNCHANGED Env

\* GET /health: the constant status of the UI server itself.
health(r) ==
    /\ Accepts(r)
    /\ req' = [req EXCEPT ![r] = Respond(r, "/health",
                 [status |-> 200, ctype |-> "application/json",
                  body |-> HealthStatus, unhandled |-> FALSE])]
    /\ UNCHANGED Env

\* ------------------------------------------------------------- proxy routes
\* GET /api/health: requests.get(f"{API_BASE_URL}/health")
api_health(r) ==
    /\ Accepts(r)
    /\ req' = [req EXCEPT ![r] = Call(r, "/api/health",
                 [method |-> "GET", path |-> "/health", query |-> <<>>,
                  body |-> NoBody])]
    /\ UNCHANGED Env

\* The two POST views: request.json is read inside the try block; when it
\* raises, the except clause answers and requests.post is never reached.
post_view(r, route, path, b) ==
    IF json_ok(b)
    THEN [Call(r, route,
               [method |-> "POST", path |-> path, query |-> <<>>,
                body |-> json_body(request_json(b))])
          EXCEPT !.inbody = b]
    ELSE [Respond(r, route, ProxyError(request_json_error(b)))
          EXCEPT !.inbody = b]

\* POST /api/validate
api_validate(r, b) ==
    /\ Accepts(r)
    /\ req' = [req EXCEPT ![r] = post_view(r, "/api/validate", "/validate", b)]
    /\ UNCHANGED Env

\* POST /api/register
api_register(r, b) ==
    /\ Accepts(r)
    /\ req' = [req EXCEPT ![r] = post_view(r, "/api/register", "/register", b)]
    /\ UNCHANGED Env

\* GET /api/resolve: requests.get(f"{API_BASE_URL}/resolve?domain={domain}")
api_resolve(r, d) ==
    /\ Accepts(r)
    /\ req' = [req EXCEPT ![r] =
                 [Call(r, "/api/resolve",
                       [method |-> "GET", path |-> "/resolve",
                        query |-> prepare_query(resolve_query(d)),
                        body |-> NoBody])
                  EXCEPT !.domain = d]]
    /\ UNCHANGED Env

\* ------------------------------------------------------------- the backend
\* The backend answers the pending call with a status and a body text.
backend_reply(r, status, text) ==
    /\ req[r].pc = "waiting"
    /\ backend = "up"
    /\ req' = [req EXCEPT ![r].pc = "returned",
                          ![r].reply = [kind |-> "response",
                                        status |-> status, text |-> text]]
    /\ UNCHANGED Env

\* The backend answers with a redirect to the same resource; the client
\* follows it (allow_redirects defaults to True) with one more request.
backend_redirect(r) ==
    /\ req[r].pc = "waiting"
    /\ backend = "up"
    /\ req[r].calls <= MaxRedirects
    /\ req' = [req EXCEPT ![r].calls = @ + 1]
    /\ UNCHANGED Env

\* The call fails in transport; requests raises with message `msg`.
backend_fail(r, msg) ==
    /\ req[r].pc = "waiting"
    /\ backend = "down"
    /\ req' = [req EXCEPT ![r].pc = "returned",
                          ![r].reply = [kind |-> "error",
                                        status |-> 0, text |-> msg]]
    /\ UNCHANGED Env

\* The backend comes up, goes down or stops answering.
backend_change(m) ==
    /\ m # backend
    /\ backend' = m
    /\ UNCHANGED <<file_exists, pc_main, exit_code, listener, req>>

\* Faulty variant of relay: the except clause catches transport errors only, so a
\* body that is not JSON raises out of the view.
relay_transport_only(reply) ==
    IF reply.kind = "error" THEN ProxyError(reply.text)
    ELSE IF loads(reply.text) = BAD
    THEN [status |-> 500, ctype |-> "text/html",
          body |-> <<"text", "Internal Server Error">>, unhandled |-> TRUE]
    ELSE make_response(loads(reply.text), reply.status)

\* ------------------------------------------------- the rest of a proxy view
\* return response.json(), response.status_code
\* except Exception as e: return jsonify({"error": str(e)}), 500
relay(reply) ==
    IF reply.kind = "error" THEN ProxyError(reply.text)
    ELSE IF loads(reply.text) = BAD
    THEN ProxyError("Expecting value: line 1 column 1 (char 0)")
    ELSE make_response(loads(reply.text), reply.status)

\* Faulty variant of proxy_return: the views keep the last backend response in one
\* module-level variable, here the reply of slot 1.
proxy_return_shared(r) ==
    /\ req[r].pc = "returned"
    /\ req' = [req EXCEPT ![r] = Respond(r, req[r].route, relay(req[1].reply))]
    /\ UNCHANGED Env

\* Faulty variant of proxy_return: the view gives up on a call that is still pending.
proxy_return_timeout(r) ==
    /\ req[r].pc \in {"waiting", "returned"}
    /\ req' = [req EXCEPT ![r] = Respond(r, req[r].route,
                 IF req[r].pc = "waiting" THEN ProxyError("Read timed out")
                 ELSE relay(req[r].reply))]
    /\ UNCHANGED Env

proxy_return(r) ==
    /\ req[r].pc = "returned"
    /\ req' = [req EXCEPT ![r] = Respond(r, req[r].route, relay(req[r].reply))]
    /\ UNCHANGED Env

\* The client has its response and the connection ends: the slot is free.
close(r) ==
    /\ req[r].pc = "done"
    /\ req' = [req EXCEPT ![r] = Idle]
    /\ UNCHANGED Env

\* ------------------------------------------------------------------ inputs
Strings(n) == UNION {[1..k -> Chars] : k \in 0..n}
AllDomains == {NoDomain} \cup {Domain(v) : v \in Strings(MaxDomainLen)}
FewDomains == {NoDomain, Domain(<<"x">>)}

JsonBody(text) == [ctype |-> "application/json", text |-> text]
AllBodies ==
    {JsonBody("{\"domain\":\"example.com\",\"ip\":\"8.8.8.8\"}"),
     JsonBody("{ \"domain\" : \"example.com\", \"ip\" : \"8.8.8.8\" }"),
     JsonBody("[1,2]"), JsonBody("\"ok\""), JsonBody("42"), JsonBody("null"),
     JsonBody("{\"domain\":"), JsonBody(""),
     [ctype |-> "text/plain", text |-> "{\"success\":true}"],
     NoInBody}
FewBodies ==
    {JsonBody("{\"domain\":\"example.com\",\"ip\":\"8.8.8.8\"}"),
     JsonBody("{\"domain\":")}

Statuses == {200, 201, 404, 500}
Texts ==
    {"{\"success\":true}", "{ \"success\": true }",
     "{\"error\":\"Domain not found\"}", "[1,2]", "\"ok\"", "42", "null",
     "<html>Bad Gateway</html>", ""}
AllReplies == Statuses \X Texts
FewReplies ==
    {<<200, "{\"success\":true}">>, <<404, "{\"error\":\"Domain not found\"}">>,
     <<200, "null">>}

AllErrors == {"Connection refused", "Connection aborted"}
FewErrors == {"Connection refused"}

\* ---------------------------------------------------------- specifications
Startup == main_check \/ app_run

Backend == \E m \in {"up", "down", "hung"} : backend_change(m)

\* The steps of the request in slot r, its inputs drawn from the sets given.
Serve(r, domains, bodies, replies, errors) ==
    \/ index(r)
    \/ health(r)
    \/ api_health(r)
    \/ \E b \in bodies : api_validate(r, b)
    \/ \E b \in bodies : api_register(r, b)
    \/ \E d \in domains : api_resolve(r, d)
    \/ \E p \in replies : backend_reply(r, p[1], p[2])
    \/ \E e \in errors : backend_fail(r, e)
    \/ proxy_return(r)
    \/ close(r)

\* Concurrent requests.
Next ==
    \/ Startup
    \/ Backend
    \/ \E r \in Requests : Serve(r, FewDomains, FewBodies, FewReplies, FewErrors)

Spec == Init /\ [][Next]_vars

\* The handler thread of a request goes on once its call has come back.
\* One request at a time, every inbound body and every backend answer,
\* redirects included.
NextRelay ==
    \/ Startup
    \/ Backend
    \/ Serve(1, FewDomains, AllBodies, AllReplies, AllErrors)
    \/ backend_redirect(1)

SpecRelay == Init /\ [][NextRelay]_vars

\* The handler thread of a request goes on once its call has come back.
SpecRelayLive == SpecRelay /\ WF_vars(proxy_return(1))

\* One request to /api/resolve, every domain value.
NextQuery ==
    \/ Startup
    \/ Backend
    \/ \E d \in AllDomains : api_resolve(1, d)
    \/ \E p \in FewReplies : backend_reply(1, p[1], p[2])
    \/ \E e \in FewErrors : backend_fail(1, e)
    \/ proxy_return(1)
    \/ close(1)

SpecQuery == Init /\ [][NextQuery]_vars

\* ------------------------------------------------------------- the claims
ProxyRoutes == {"/api/health", "/api/validate", "/api/register", "/api/resolve"}
PostRoutes == {"/api/validate", "/api/register"}

Done(r) == req[r].pc = "done"
Proxied(r) == req[r].route \in ProxyRoutes

\* The outbound call of r came back with a status and a body that is JSON.
GotJson(r) ==
    /\ req[r].reply.kind = "response"
    /\ loads(req[r].reply.text) # BAD

\* The outbound call of r failed in transport, or its body is not JSON.
CallFailed(r) ==
    \/ req[r].reply.kind = "error"
    \/ req[r].reply.kind = "response" /\ loads(req[r].reply.text) = BAD

\* The response of r is the backend's document under the backend's status.
Relayed(r) ==
    /\ req[r].resp.status = req[r].reply.status
    /\ req[r].resp.ctype = "application/json"
    /\ req[r].resp.body = loads(req[r].reply.text)

\* The response of r is 500 with a body {"error": m}, m not empty.
IsProxyError(r) ==
    /\ req[r].resp.status = 500
    /\ req[r].resp.ctype = "application/json"
    /\ Len(req[r].resp.body) = 3
    /\ req[r].resp.body[1] = "object"
    /\ req[r].resp.body[2] = "error"
    /\ req[r].resp.body[3] # ""

\* C1 as stated: on a proxied route, whenever the backend call completes
\* with status S and a JSON body B, the response has status S and body B.
C1_RelayIdentity ==
    \A r \in Requests : Done(r) /\ Proxied(r) /\ GotJson(r) => Relayed(r)

\* C2: on a proxied route, whenever the outbound call fails in transport or
\* the backend body is not JSON, the response is 500 with the body
\* {"error": m}, m the non-empty message of the failure.
C2_TransportFailureMapping ==
    \A r \in Requests :
        Done(r) /\ Proxied(r) /\ CallFailed(r)
        => /\ IsProxyError(r)
           /\ ~req[r].resp.unhandled
           /\ req[r].reply.kind = "error"
              => req[r].resp.body[3] = req[r].reply.text

\* C2's case: a request answered 500 after its call came back with a body
\* that is not JSON.
C2_Witness ==
    \E r \in Requests :
        /\ Done(r) /\ Proxied(r)
        /\ req[r].reply.kind = "response"
        /\ req[r].reply.text = "<html>Bad Gateway</html>"
        /\ req[r].resp.status = 500

\* C3 as stated: every request to a proxied route ends with a JSON response
\* that is the backend's payload under the backend's status or the
\* {"error": m} body under 500, and no exception leaves the handler.
C3_AlwaysJsonOfTwoKinds ==
    \A r \in Requests :
        Done(r) /\ Proxied(r)
        => /\ ~req[r].resp.unhandled
           /\ req[r].resp.ctype = "application/json"
           /\ Relayed(r) \/ IsProxyError(r)

\* C4 as stated: the domain parameter the backend's resolve endpoint
\* receives is exactly the inbound domain value.
C4_QueryPassThrough ==
    \A r \in Requests :
        req[r].route = "/api/resolve" /\ req[r].domain.present
        => received_domain(req[r].out.query) = req[r].domain.v

\* C5: in every state of the backend and after any earlier requests,
\* GET /health answers 200 with the constant body and sends nothing to the
\* backend.
C5_HealthIndependent ==
    \A r \in Requests :
        req[r].route = "/health"
        => /\ Done(r)
           /\ req[r].resp = [status |-> 200, ctype |-> "application/json",
                             body |-> HealthStatus, unhandled |-> FALSE]
           /\ req[r].calls = 0
           /\ req[r].out = NoCall

\* C5's case: /health answered while the backend is down and another
\* request is still waiting for it.
C5_Witness ==
    \E r, o \in Requests :
        /\ req[r].route = "/health" /\ Done(r)
        /\ backend = "down"
        /\ req[o].pc = "waiting"

\* C6: when the static file is missing the process exits with a nonzero
\* code and the listener is never bound; a bound listener means the check
\* found the file.
C6_StartupOrdering ==
    /\ ~file_exists /\ pc_main # "start"
       => pc_main = "exited" /\ exit_code > 0 /\ listener = ""
    /\ listener # "" => file_exists /\ pc_main = "serving" /\ exit_code = -1
    /\ \A r \in Requests : req[r].pc # "idle" => listener = LISTEN

\* C6's case: the check ran and found the file missing.
C6_Witness == ~file_exists /\ pc_main = "exited"

\* The input of a request: its route, query value and body.
SameInput(a, b) ==
    /\ req[a].route = req[b].route
    /\ req[a].domain = req[b].domain
    /\ req[a].inbody = req[b].inbody

\* C7: under any interleaving, what a request sends depends only on its own
\* input, and the response it receives only on its own input and on the
\* outcome of its own outbound call: requests with equal inputs send the
\* same call, with equal outcomes too they get the same response, and a JSON
\* object that came back for a request is the body that request gets.
C7_NonInterference ==
    \A a, b \in Requests :
        /\ req[a].pc # "idle" /\ req[b].pc # "idle" /\ SameInput(a, b)
           => req[a].out = req[b].out
        /\ Done(a) /\ Done(b) /\ SameInput(a, b) /\ req[a].reply = req[b].reply
           => req[a].resp = req[b].resp
        /\ Done(a) /\ Proxied(a) /\ GotJson(a)
           /\ json_type(loads(req[a].reply.text)) = "object"
           => Relayed(a)

\* C7's case: two requests to the same route handled at the same time, whose
\* calls came back differently, each answered with its own outcome.
C7_Witness ==
    \E a, b \in Requests :
        /\ a # b /\ Done(a) /\ Done(b)
        /\ req[a].route = "/api/health" /\ req[b].route = "/api/health"
        /\ req[a].reply.kind = "response" /\ req[b].reply.kind = "error"
        /\ req[a].resp # req[b].resp

\* C8 as stated: every inbound request causes at most one outbound backend
\* request over its whole handling.
C8_SingleAttempt == \A r \in Requests : req[r].calls <= 1

\* C9 as stated: every request to a POST route results in one outbound POST
\* to the matching backend path whose body is the inbound body.
C9_BodyPassThrough ==
    \A r \in Requests :
        req[r].route \in PostRoutes /\ req[r].pc # "idle"
        => /\ req[r].calls >= 1
           /\ req[r].out.method = "POST"
           /\ req[r].out.path =
                (IF req[r].route = "/api/validate" THEN "/validate"
                 ELSE "/register")
           /\ req[r].out.body = loads(req[r].inbody.text)

\* A response is out for r although its outbound call is still pending.
Early(r) == req[r].nresp > 0 /\ req[r].calls > 0 /\ req[r].reply.kind = "none"

====
